---- MODULE Spec2Model ----
(***************************************************************************)
(* Model of the CSV loader (src/src/CSVReader.cpp), of the order book      *)
(* index (src/src/OrderBook.cpp), of the statistics                        *)
(* (src/src/OrderBookEntry.cpp) and of the menu application                *)
(* (src/src/MerkelMain.cpp).                                               *)
(*                                                                         *)
(* A std::string is a sequence of one-character strings, a file is the     *)
(* sequence of lines std::getline yields, a price or amount is held as an  *)
(* integer number of tenths (10.0 is 100) and becomes its binary64 value   *)
(* where the code computes with it, a std::vector is a sequence and the    *)
(* std::map is a function whose DOMAIN is the set of keys present.         *)
(***************************************************************************)
EXTENDS Integers, Sequences, FiniteSets, Bags, TLC

VARIABLES
    out,                    \* the caller's vector handed to readCSV(filename, out)
    ret,                    \* what the last readCSV(filename, out) returned
    cerr,                   \* what the last operation wrote to std::cerr
    ordersByProductTime_,   \* OrderBook's map (product, timestamp) -> vector of entries
    accepted,               \* history: the entries the book took since its last load, in order
    last,                   \* history: the last operation, its arguments, for load and
                            \* insertOrder the number of entries the book held before it,
                            \* and whether it repeats the operation just before it
    result,                 \* history: the last query since the last load or insertOrder
                            \* and what it returned
    stats,                  \* the vectors handed to the compute* functions and, when
                            \* done, what they returned
    pc,                     \* where main() is: "start" before init(), "menu" at the top of
                            \* run()'s loop, "validate" inside validateUserOption's loop,
                            \* "done" after run() returned
    currentTimestamp_,      \* MerkelMain's current time step
    cout                    \* the lines the last handler of MerkelMain wrote to std::cout

vars ==
    <<out, ret, cerr, ordersByProductTime_, accepted, last, result, stats,
      pc, currentTimestamp_, cout>>

\* the state of MerkelMain outside its order book
mainVars == <<pc, currentTimestamp_, cout>>

(***************************************************************************)
(* Bounds of the model.                                                    *)
(***************************************************************************)
MaxLines == 2       \* lines of a source file
MaxEntries == 3     \* insertOrder is taken while the book holds fewer entries
MaxSlice == 3       \* entries of the vector the statistics are computed over

(***************************************************************************)
(* Characters.  CharOrder lists the characters the inputs are made of in   *)
(* the order of their codes, which is the order std::string compares by.   *)
(***************************************************************************)
CharOrder ==
    << " ", "+", ",", "-", ".", "/",
       "0", "1", "2", "3", "4", "5", "6", "7", "8", "9", ":",
       "A", "B", "X", "Y",
       "a", "b", "d", "e", "g", "h", "i", "k", "l", "n", "o", "r", "s", "t", "y", "z" >>

Code(c) == CHOOSE i \in 1..Len(CharOrder) : CharOrder[i] = c

Digits == <<"0", "1", "2", "3", "4", "5", "6", "7", "8", "9">>

IsDigit(c) == \E i \in 1..Len(Digits) : Digits[i] = c

DigitVal(c) == (CHOOSE i \in 1..Len(Digits) : Digits[i] = c) - 1

IsSpace(c) == c = " "

(***************************************************************************)
(* std::string operator< : lexicographic by character code.                *)
(***************************************************************************)
RECURSIVE StrLessFrom(_, _, _)
StrLessFrom(a, b, i) ==
    IF i > Len(b) THEN FALSE
    ELSE IF i > Len(a) THEN TRUE
    ELSE IF Code(a[i]) < Code(b[i]) THEN TRUE
    ELSE IF Code(a[i]) > Code(b[i]) THEN FALSE
    ELSE StrLessFrom(a, b, i + 1)

StrLess(a, b) == StrLessFrom(a, b, 1)

(***************************************************************************)
(* CSVReader::tokenize: std::getline(ss, token, delimiter) until it fails. *)
(* getline takes the characters up to the next delimiter (which it         *)
(* consumes) or to the end, and fails only when nothing is left: a         *)
(* trailing delimiter yields no empty last token.                          *)
(***************************************************************************)
RECURSIVE FindDelim(_, _, _)
FindDelim(s, i, delimiter) ==
    IF i > Len(s) THEN Len(s) + 1
    ELSE IF s[i] = delimiter THEN i
    ELSE FindDelim(s, i + 1, delimiter)

RECURSIVE tokenizeFrom(_, _, _, _)
tokenizeFrom(s, i, delimiter, tokens) ==
    IF i > Len(s) THEN tokens
    ELSE LET j == FindDelim(s, i, delimiter)
         IN  tokenizeFrom(s, j + 1, delimiter, Append(tokens, SubSeq(s, i, j - 1)))

tokenize(csvLine, delimiter) == tokenizeFrom(csvLine, 1, delimiter, <<>>)

(***************************************************************************)
(* std::stod: skips leading white space, takes an optional sign and the    *)
(* longest digits[.digits] prefix, and throws std::invalid_argument when   *)
(* that prefix has no digit.  What follows the prefix is ignored.  The     *)
(* value is in tenths; it is exact for at most one fractional digit.       *)
(* Exponents, hexadecimal, inf and nan need characters that CharOrder      *)
(* does not have, and no input is large enough for std::out_of_range.      *)
(***************************************************************************)
RECURSIVE SkipSpace(_, _)
SkipSpace(s, i) ==
    IF i <= Len(s) /\ IsSpace(s[i]) THEN SkipSpace(s, i + 1) ELSE i

RECURSIVE DigitsEnd(_, _)
DigitsEnd(s, i) ==
    IF i <= Len(s) /\ IsDigit(s[i]) THEN DigitsEnd(s, i + 1) ELSE i

RECURSIVE DigitsValue(_, _, _)
DigitsValue(s, i, j) ==
    IF j <= i THEN 0 ELSE DigitsValue(s, i, j - 1) * 10 + DigitVal(s[j - 1])

stod(str) ==
    LET a == SkipSpace(str, 1)
        neg == a <= Len(str) /\ str[a] = "-"
        b == IF a <= Len(str) /\ str[a] \in {"+", "-"} THEN a + 1 ELSE a
        c == DigitsEnd(str, b)
        dot == c <= Len(str) /\ str[c] = "."
        d == IF dot THEN DigitsEnd(str, c + 1) ELSE c
        nDigits == (c - b) + (IF dot THEN d - (c + 1) ELSE 0)
        tenth == IF dot /\ d > c + 1 THEN DigitVal(str[c + 1]) ELSE 0
        mag == DigitsValue(str, b, c) * 10 + tenth
    IN  IF nDigits = 0
        THEN [converted |-> FALSE, value |-> 0]
        ELSE [converted |-> TRUE, value |-> IF neg THEN 0 - mag ELSE mag]

(***************************************************************************)
(* OrderBookEntry and CSVReader::stringsToOBE.                             *)
(***************************************************************************)
OrderBookEntry(price, amount, timestamp, product, orderType) ==
    [price |-> price, amount |-> amount, timestamp |-> timestamp,
     product |-> product, orderType |-> orderType]

NoEntry == OrderBookEntry(0, 0, <<>>, <<>>, "none")

MinColumns == 5

Bid == <<"b", "i", "d">>

Threw(what) == [threw |-> TRUE, what |-> what, obe |-> NoEntry]

stringsToOBESwapped(tokens) ==
    IF Len(tokens) < MinColumns THEN Threw("CSV line has fewer than 5 columns")
    ELSE IF ~stod(tokens[4]).converted \/ ~stod(tokens[5]).converted THEN Threw("stod")
    ELSE [threw |-> FALSE, what |-> "",
          obe |-> OrderBookEntry(stod(tokens[4]).value, stod(tokens[5]).value,
                                 tokens[1], tokens[2],
                                 IF tokens[3] = Bid THEN "bid" ELSE "ask")]

stringsToOBEStrictSide(tokens) ==
    IF Len(tokens) < MinColumns THEN Threw("CSV line has fewer than 5 columns")
    ELSE IF ~stod(tokens[4]).converted \/ ~stod(tokens[5]).converted THEN Threw("stod")
    ELSE IF tokens[3] = <<>> THEN Threw("side")
    ELSE [threw |-> FALSE, what |-> "",
          obe |-> OrderBookEntry(stod(tokens[5]).value, stod(tokens[4]).value,
                                 tokens[1], tokens[2],
                                 IF tokens[3] = Bid THEN "bid" ELSE "ask")]

stringsToOBE(tokens) ==
    IF Len(tokens) < MinColumns THEN Threw("CSV line has fewer than 5 columns")
    ELSE LET timestamp == tokens[1]
             product == tokens[2]
             orderTypeStr == tokens[3]
             amount == stod(tokens[4])
             price == stod(tokens[5])
         IN  IF ~amount.converted \/ ~price.converted THEN Threw("stod")
             ELSE [threw |-> FALSE, what |-> "",
                   obe |-> OrderBookEntry(price.value, amount.value, timestamp, product,
                                          IF orderTypeStr = Bid THEN "bid" ELSE "ask")]

(***************************************************************************)
(* CSVReader::readCSVInto and the two readCSV.  A file is                  *)
(* [is_open, lines]; the result is the vector, the returned count and the  *)
(* messages written to std::cerr.                                          *)
(***************************************************************************)
CouldNotOpen == <<"Could not open file">>

Skipped(what) == <<"Skipped line (invalid number)", what>>

RECURSIVE readLinesStopAtBad(_, _, _, _)
readLinesStopAtBad(lines, i, vec, log) ==
    IF i > Len(lines) THEN [out |-> vec, cerr |-> log]
    ELSE LET line == lines[i]
             tokens == tokenize(line, ",")
         IN  IF line = <<>> THEN readLinesStopAtBad(lines, i + 1, vec, log)
             ELSE IF Len(tokens) < MinColumns \/ stringsToOBE(tokens).threw
             THEN [out |-> vec, cerr |-> log]
             ELSE readLinesStopAtBad(lines, i + 1, Append(vec, stringsToOBE(tokens).obe), log)

RECURSIVE readLines(_, _, _, _)
readLines(lines, i, vec, log) ==
    IF i > Len(lines) THEN [out |-> vec, cerr |-> log]
    ELSE LET line == lines[i]
             tokens == tokenize(line, ",")
             r == stringsToOBE(tokens)
         IN  IF line = <<>> THEN readLines(lines, i + 1, vec, log)
             ELSE IF Len(tokens) < MinColumns THEN readLines(lines, i + 1, vec, log)
             ELSE IF r.threw THEN readLines(lines, i + 1, vec, Append(log, Skipped(r.what)))
             ELSE readLines(lines, i + 1, Append(vec, r.obe), log)

readCSVInto(file, vec) ==
    IF ~file.is_open
    THEN [out |-> vec, ret |-> 0, cerr |-> <<CouldNotOpen>>]
    ELSE LET r == readLines(file.lines, 1, <<>>, <<>>)
         IN  [out |-> r.out, ret |-> Len(r.out), cerr |-> r.cerr]

\* readCSV(filename): a fresh result vector, the count is dropped
readCSV(file) == readCSVInto(file, <<>>)

(***************************************************************************)
(* double.  A price of the book is a decimal number of tenths; the         *)
(* statistics compute with the IEEE 754 binary64 values of the prices.     *)
(* A natural number too large for one machine integer is a sequence of     *)
(* limbs below Base, least significant first, without leading zero limbs.  *)
(* A double is [neg, mant, exp] of value (-1)^neg * mant * 2^exp with mant *)
(* of exactly Precision bits, or DoubleZero; every operation rounds its    *)
(* exact result to nearest, ties to even.  No input is large or small      *)
(* enough to overflow or to be subnormal, and -0.0, which compares equal   *)
(* to 0.0, is not told apart from it.  A quotient by 0.0 is                *)
(* DoubleNotFinite; the one operation the code applies to a quotient, the  *)
(* product with 100.0, keeps it.                                           *)
(***************************************************************************)
Base == 32768

LimbBits == 15

Precision == 53

RECURSIVE Pow2(_)
Pow2(n) == IF n = 0 THEN 1 ELSE 2 * Pow2(n - 1)

RECURSIVE NatTrim(_)
NatTrim(a) ==
    IF a # <<>> /\ a[Len(a)] = 0 THEN NatTrim(SubSeq(a, 1, Len(a) - 1)) ELSE a

RECURSIVE NatOfInt(_)
NatOfInt(n) == IF n = 0 THEN <<>> ELSE <<n % Base>> \o NatOfInt(n \div Base)

Limb(a, i) == IF i <= Len(a) THEN a[i] ELSE 0

RECURSIVE NatAddFrom(_, _, _, _)
NatAddFrom(a, b, i, carry) ==
    IF i > Len(a) /\ i > Len(b)
    THEN IF carry = 0 THEN <<>> ELSE <<carry>>
    ELSE LET t == Limb(a, i) + Limb(b, i) + carry
         IN  <<t % Base>> \o NatAddFrom(a, b, i + 1, t \div Base)

NatAdd(a, b) == NatAddFrom(a, b, 1, 0)

\* a - b for a >= b
RECURSIVE NatSubFrom(_, _, _, _)
NatSubFrom(a, b, i, borrow) ==
    IF i > Len(a) THEN <<>>
    ELSE LET t == a[i] - Limb(b, i) - borrow
         IN  <<IF t < 0 THEN t + Base ELSE t>>
                 \o NatSubFrom(a, b, i + 1, IF t < 0 THEN 1 ELSE 0)

NatSub(a, b) == NatTrim(NatSubFrom(a, b, 1, 0))

RECURSIVE NatLessFrom(_, _, _)
NatLessFrom(a, b, i) ==
    IF i = 0 THEN FALSE
    ELSE IF a[i] # b[i] THEN a[i] < b[i]
    ELSE NatLessFrom(a, b, i - 1)

NatLess(a, b) ==
    IF Len(a) # Len(b) THEN Len(a) < Len(b) ELSE NatLessFrom(a, b, Len(a))

RECURSIVE NatMulSmallFrom(_, _, _, _)
NatMulSmallFrom(a, k, i, carry) ==
    IF i > Len(a)
    THEN IF carry = 0 THEN <<>> ELSE <<carry>>
    ELSE LET t == a[i] * k + carry
         IN  <<t % Base>> \o NatMulSmallFrom(a, k, i + 1, t \div Base)

\* a * k for k < Base
NatMulSmall(a, k) == IF k = 0 THEN <<>> ELSE NatMulSmallFrom(a, k, 1, 0)

NatShiftLimbs(a, n) == IF a = <<>> THEN <<>> ELSE [i \in 1..n |-> 0] \o a

\* a * 2^n
NatShl(a, n) ==
    NatShiftLimbs(NatMulSmall(a, Pow2(n % LimbBits)), n \div LimbBits)

RECURSIVE NatMulFrom(_, _, _)
NatMulFrom(a, b, j) ==
    IF j > Len(b) THEN <<>>
    ELSE NatAdd(NatShiftLimbs(NatMulSmall(a, b[j]), j - 1), NatMulFrom(a, b, j + 1))

NatMul(a, b) == NatMulFrom(a, b, 1)

RECURSIVE BitLenSmall(_)
BitLenSmall(n) == IF n = 0 THEN 0 ELSE 1 + BitLenSmall(n \div 2)

NatBitLen(a) ==
    IF a = <<>> THEN 0 ELSE LimbBits * (Len(a) - 1) + BitLenSmall(a[Len(a)])

\* bit i of a, bit 0 the least significant
NatBit(a, i) == (Limb(a, i \div LimbBits + 1) \div Pow2(i % LimbBits)) % 2

\* long division: quotient and remainder of r * 2^(hi - lo) + (bits lo..hi-1
\* of a) divided by d, for r < d; the bits are taken one at a time, the upper
\* half of them before the lower half
RECURSIVE NatDivModBits(_, _, _, _, _)
NatDivModBits(a, d, r, lo, hi) ==
    IF hi - lo = 1
    THEN LET r2 == NatAdd(NatMulSmall(r, 2), NatOfInt(NatBit(a, lo)))
         IN  IF NatLess(r2, d)
             THEN [quot |-> <<>>, rem |-> r2]
             ELSE [quot |-> <<1>>, rem |-> NatSub(r2, d)]
    ELSE LET mid == (lo + hi) \div 2
             upper == NatDivModBits(a, d, r, mid, hi)
             lower == NatDivModBits(a, d, upper.rem, lo, mid)
         IN  [quot |-> NatAdd(NatShl(upper.quot, mid - lo), lower.quot),
              rem |-> lower.rem]

NatDivMod(a, d) ==
    IF a = <<>> THEN [quot |-> <<>>, rem |-> <<>>]
    ELSE NatDivModBits(a, d, <<>>, 0, NatBitLen(a))

DoubleZero == [neg |-> FALSE, mant |-> <<>>, exp |-> 0]

\* what x / 0.0 gives: an infinity, or NaN for 0.0 / 0.0
DoubleNotFinite == [neg |-> FALSE, mant |-> <<>>, exp |-> 1]

\* quotient and remainder of n * 2^k by d
ScaledQuot(n, d, k) ==
    IF k >= 0 THEN NatDivMod(NatShl(n, k), d) ELSE NatDivMod(n, NatShl(d, 0 - k))

\* whether quotient qr.quot with remainder qr.rem of a division by den rounds up
RoundsUp(qr, den) ==
    \/ NatLess(den, NatMulSmall(qr.rem, 2))
    \/ NatMulSmall(qr.rem, 2) = den /\ NatBit(qr.quot, 0) = 1

\* m * 2^e for m of Precision bits, or of one more when rounding carried
DoubleNormal(neg, m, e) ==
    IF NatBitLen(m) > Precision
    THEN [neg |-> neg, mant |-> NatDivMod(m, <<2>>).quot, exp |-> e + 1]
    ELSE [neg |-> neg, mant |-> m, exp |-> e]

\* the quotient qr.quot of a division by den, rounded to nearest, ties to even
RoundedQuot(qr, den) == IF RoundsUp(qr, den) THEN NatAdd(qr.quot, <<1>>) ELSE qr.quot

DoubleRoundOf(neg, qr, den, e) == DoubleNormal(neg, RoundedQuot(qr, den), e)

\* n / d * 2^e rounded at the scale s, which leaves Precision bits of quotient
DoubleRoundAt(neg, n, d, e, s) ==
    DoubleRoundOf(neg, ScaledQuot(n, d, s), IF s >= 0 THEN d ELSE NatShl(d, 0 - s), e - s)

\* s0 or s0 - 1, whichever leaves Precision bits of quotient
ScaleOf(n, d, s0) ==
    IF NatBitLen(ScaledQuot(n, d, s0).quot) > Precision THEN s0 - 1 ELSE s0

\* the double nearest to (-1)^neg * n / d * 2^e, ties to even
DoubleRound(neg, n, d, e) ==
    IF n = <<>> THEN DoubleZero
    ELSE DoubleRoundAt(neg, n, d, e,
                       ScaleOf(n, d, Precision - (NatBitLen(n) - NatBitLen(d))))

\* static_cast<double>(n) of a size
DoubleOfInt(n) == DoubleRound(FALSE, NatOfInt(n), <<1>>, 0)

\* the double that std::stod gives for the decimal text of p tenths
DoubleOfTenths(p) ==
    DoubleRound(p < 0, NatOfInt(IF p < 0 THEN 0 - p ELSE p), NatOfInt(10), 0)

DoubleNeg(x) == IF x = DoubleZero THEN x ELSE [x EXCEPT !.neg = ~x.neg]

\* x + y
DoubleAdd(x, y) ==
    IF x = DoubleZero THEN y
    ELSE IF y = DoubleZero THEN x
    ELSE LET e == IF x.exp < y.exp THEN x.exp ELSE y.exp
             a == NatShl(x.mant, x.exp - e)
             b == NatShl(y.mant, y.exp - e)
         IN  IF x.neg = y.neg THEN DoubleRound(x.neg, NatAdd(a, b), <<1>>, e)
             ELSE IF NatLess(a, b) THEN DoubleRound(y.neg, NatSub(b, a), <<1>>, e)
             ELSE DoubleRound(x.neg, NatSub(a, b), <<1>>, e)

\* x - y
DoubleSub(x, y) == DoubleAdd(x, DoubleNeg(y))

\* x * y
DoubleMul(x, y) ==
    IF x = DoubleNotFinite \/ y = DoubleNotFinite THEN DoubleNotFinite
    ELSE IF x = DoubleZero \/ y = DoubleZero THEN DoubleZero
    ELSE DoubleRound(x.neg # y.neg, NatMul(x.mant, y.mant), <<1>>, x.exp + y.exp)

\* x / y
DoubleDiv(x, y) ==
    IF y = DoubleZero THEN DoubleNotFinite
    ELSE IF x = DoubleZero THEN DoubleZero
    ELSE DoubleRound(x.neg # y.neg, x.mant, y.mant, x.exp - y.exp)

\* x < y
DoubleLess(x, y) ==
    IF x = y THEN FALSE
    ELSE IF x = DoubleZero THEN ~y.neg
    ELSE IF y = DoubleZero THEN x.neg
    ELSE IF x.neg # y.neg THEN x.neg
    ELSE LET less == x.exp < y.exp \/ (x.exp = y.exp /\ NatLess(x.mant, y.mant))
         IN  IF x.neg THEN ~less ELSE less

(***************************************************************************)
(* The statistics of OrderBookEntry.cpp over a vector of entries.          *)
(***************************************************************************)
\* the double in e.price
PriceOf(e) == DoubleOfTenths(e.price)

RECURSIVE SumFrom(_, _, _)
SumFrom(entries, i, sum) ==
    IF i > Len(entries) THEN sum
    ELSE SumFrom(entries, i + 1, DoubleAdd(sum, PriceOf(entries[i])))

computeAveragePrice(entries) ==
    IF entries = <<>> THEN DoubleZero
    ELSE DoubleDiv(SumFrom(entries, 1, DoubleZero), DoubleOfInt(Len(entries)))

RECURSIVE LowFrom(_, _, _)
LowFrom(entries, i, low) ==
    IF i > Len(entries) THEN low
    ELSE LowFrom(entries, i + 1,
                 IF DoubleLess(PriceOf(entries[i]), low) THEN PriceOf(entries[i]) ELSE low)

RECURSIVE HighFrom(_, _, _)
HighFrom(entries, i, high) ==
    IF i > Len(entries) THEN high
    ELSE HighFrom(entries, i + 1,
                  IF DoubleLess(high, PriceOf(entries[i])) THEN PriceOf(entries[i]) ELSE high)

computeLowPriceFromZero(entries) == LowFrom(entries, 1, DoubleZero)

computeLowPrice(entries) ==
    IF entries = <<>> THEN DoubleZero ELSE LowFrom(entries, 1, PriceOf(entries[1]))

computeHighPrice(entries) ==
    IF entries = <<>> THEN DoubleZero ELSE HighFrom(entries, 1, PriceOf(entries[1]))

computePriceSpread(entries) ==
    DoubleSub(computeHighPrice(entries), computeLowPrice(entries))

computePriceChangeOfNonEmpty(current, previous) ==
    IF previous = <<>> \/ current = <<>> THEN DoubleZero
    ELSE DoubleSub(computeAveragePrice(current), computeAveragePrice(previous))

computePriceChange(current, previous) ==
    IF previous = <<>> THEN DoubleZero
    ELSE LET meanPrev == computeAveragePrice(previous)
             meanCurr == computeAveragePrice(current)
         IN  DoubleSub(meanCurr, meanPrev)

computePercentChangeUnguarded(current, previous) ==
    IF previous = <<>> THEN DoubleZero
    ELSE LET meanPrev == computeAveragePrice(previous)
             meanCurr == computeAveragePrice(current)
         IN  DoubleMul(DoubleDiv(DoubleSub(meanCurr, meanPrev), meanPrev), DoubleOfInt(100))

computePercentChange(current, previous) ==
    IF previous = <<>> THEN DoubleZero
    ELSE LET meanPrev == computeAveragePrice(previous)
         IN  IF meanPrev = DoubleZero THEN DoubleZero
             ELSE LET meanCurr == computeAveragePrice(current)
                  IN  DoubleMul(DoubleDiv(DoubleSub(meanCurr, meanPrev), meanPrev),
                                DoubleOfInt(100))

(***************************************************************************)
(* Inputs.  Csv joins fields with commas.  LinePool holds a blank line, a  *)
(* well-formed bid, a line with a sixth field, a differently-cased side    *)
(* token and a negative price, a line with an empty side token and         *)
(* numbers that std::stod takes by their prefix, a line with an empty      *)
(* timestamp, a line of three fields,                                      *)
(* a line with an empty fifth field, and lines whose amount or price does  *)
(* not parse.                                                              *)
(***************************************************************************)
RECURSIVE Csv(_)
Csv(fields) ==
    IF Len(fields) = 1 THEN fields[1]
    ELSE fields[1] \o <<",">> \o Csv(Tail(fields))

T1 == <<"1">>
T2 == <<"2">>
T12 == <<"1", "2">>
PA == <<"A">>
PB == <<"B">>
Ask == <<"a", "s", "k">>

LinePool ==
    { <<>>,
      Csv(<<T1, PA, Bid, <<"1">>, <<"2">>>>),
      Csv(<<T2, PB, <<"B", "i", "d">>, <<"1">>, <<"-", "1", ".", "5">>, <<"9">>>>),
      Csv(<<T1, PA, <<>>, <<"+", "2">>, <<" ", "1", "z">>>>),
      Csv(<<<<>>, PA, Bid, <<"1">>, <<"1">>>>),
      Csv(<<<<"z">>, <<"z">>, <<"z">>>>),
      Csv(<<T1, PA, Bid, <<"z">>, <<"1">>>>),
      Csv(<<T1, PA, Bid, <<"1">>, <<>>>>),
      Csv(<<T1, PA, Ask, <<"1">>, <<".">>>>) }

RECURSIVE SeqsUpTo(_, _)
SeqsUpTo(S, n) ==
    IF n = 0 THEN {<<>>}
    ELSE LET shorter == SeqsUpTo(S, n - 1)
         IN  shorter \cup {Append(q, x) : q \in shorter, x \in S}

NoFile == [is_open |-> FALSE, lines |-> <<>>]

NoQuery == [name |-> "none", type |-> "none", product |-> <<>>, timestamp |-> <<>>]

NoResult == [q |-> NoQuery, value |-> <<>>]

NoStats ==
    [current |-> <<>>, previous |-> <<>>, done |-> FALSE,
     mean |-> DoubleZero, low |-> DoubleZero, high |-> DoubleZero, spread |-> DoubleZero,
     change |-> DoubleZero, percent |-> DoubleZero]

Files == {NoFile} \cup {[is_open |-> TRUE, lines |-> ls] : ls \in SeqsUpTo(LinePool, MaxLines)}

(***************************************************************************)
(* The state after construction and the call readCSV(filename, out).       *)
(***************************************************************************)
Init ==
    /\ out = <<>>
    /\ ret = 0
    /\ cerr = <<>>
    /\ ordersByProductTime_ = <<>>
    /\ accepted = <<>>
    /\ last = [op |-> "none", file |-> NoFile, order |-> NoEntry, held |-> 0, again |-> FALSE]
    /\ result = NoResult
    /\ stats = NoStats
    /\ pc = "start"
    /\ currentTimestamp_ = <<>>
    /\ cout = <<>>

ReadCSV(file) ==
    LET r == readCSVInto(file, out)
    IN  /\ out' = r.out
        /\ ret' = r.ret
        /\ cerr' = r.cerr
        /\ last' = [op |-> "readCSV", file |-> file, order |-> NoEntry, held |-> 0,
                    again |-> FALSE]
        /\ UNCHANGED <<ordersByProductTime_, accepted, result, stats, mainVars>>

LoaderNext == \E file \in Files : ReadCSV(file)

LoaderSpec == Init /\ [][LoaderNext]_vars

(***************************************************************************)
(* What the claims about the loader speak of, stated on the text of a      *)
(* line: its comma-separated fields, and whether a field starts (after     *)
(* white space and one optional sign) with a number.                       *)
(***************************************************************************)
Commas(line) == {i \in 1..Len(line) : line[i] = ","}

NumFields(line) == Cardinality(Commas(line)) + 1

\* position of the k-th comma; 0 before the first field, Len + 1 after the last
CommaAt(line, k) ==
    IF k = 0 THEN 0
    ELSE IF k > Cardinality(Commas(line)) THEN Len(line) + 1
    ELSE CHOOSE i \in Commas(line) : Cardinality({j \in Commas(line) : j < i}) = k - 1

Field(line, k) == SubSeq(line, CommaAt(line, k - 1) + 1, CommaAt(line, k) - 1)

Parseable(f) ==
    \E i \in 1..Len(f) :
        /\ \A k \in 1..(i - 1) : IsSpace(f[k])
        /\ LET j == IF f[i] \in {"+", "-"} THEN i + 1 ELSE i
           IN  /\ j <= Len(f)
               /\ \/ IsDigit(f[j])
                  \/ f[j] = "." /\ j + 1 <= Len(f) /\ IsDigit(f[j + 1])

Malformed(line) ==
    \/ NumFields(line) < 5
    \/ ~Parseable(Field(line, 4))
    \/ ~Parseable(Field(line, 5))

ValidIdx(lines) == {i \in 1..Len(lines) : ~Malformed(lines[i])}

KthOf(S, k) == CHOOSE i \in S : Cardinality({j \in S : j < i}) = k - 1

ParseLine(line) == stringsToOBE(tokenize(line, ","))

\* the records of the valid lines of a file, in source order
ValidRecords(lines) ==
    [k \in 1..Cardinality(ValidIdx(lines)) |-> ParseLine(lines[KthOf(ValidIdx(lines), k)]).obe]

LoaderRan == last.op = "readCSV" /\ last.file.is_open

(***************************************************************************)
(* OrderBook.  The map is ordered by key: std::pair compares the product   *)
(* first, then the timestamp.  operator[] creates an absent bucket.        *)
(***************************************************************************)
KeyLess(a, b) == StrLess(a[1], b[1]) \/ (a[1] = b[1] /\ StrLess(a[2], b[2]))

RECURSIVE SortedKeys(_)
SortedKeys(S) ==
    IF S = {} THEN <<>>
    ELSE LET first == CHOOSE k \in S : \A o \in S \ {k} : KeyLess(k, o)
         IN  <<first>> \o SortedKeys(S \ {first})

pushBackReplaces(m, key, e) ==
    [k \in DOMAIN m \cup {key} |-> IF k = key THEN <<e>> ELSE m[k]]

\* m[key].push_back(e)
pushBack(m, key, e) ==
    [k \in DOMAIN m \cup {key} |->
        IF k = key
        THEN Append(IF key \in DOMAIN m THEN m[key] ELSE <<>>, e)
        ELSE m[k]]

RECURSIVE groupEntries(_, _, _)
groupEntries(m, entries, i) ==
    IF i > Len(entries) THEN m
    ELSE groupEntries(pushBack(m, <<entries[i].product, entries[i].timestamp>>, entries[i]),
                      entries, i + 1)

loadKeepsOld(m, file) == groupEntries(m, readCSV(file).out, 1)

\* OrderBook::load: the map after load(filename), from the map m before it
load(m, file) == groupEntries(<<>>, readCSV(file).out, 1)

getOrdersUnfiltered(type, product, timestamp) ==
    IF <<product, timestamp>> \notin DOMAIN ordersByProductTime_ THEN <<>>
    ELSE ordersByProductTime_[<<product, timestamp>>]

getOrders(type, product, timestamp) ==
    IF <<product, timestamp>> \notin DOMAIN ordersByProductTime_ THEN <<>>
    ELSE SelectSeq(ordersByProductTime_[<<product, timestamp>>],
                   LAMBDA e : e.orderType = type)

matchOrdersBidsOnly(product, timestamp) == getOrders("bid", product, timestamp)

matchOrders(product, timestamp) ==
    IF <<product, timestamp>> \notin DOMAIN ordersByProductTime_ THEN <<>>
    ELSE ordersByProductTime_[<<product, timestamp>>]

RECURSIVE HighestFrom(_, _, _)
HighestFrom(entries, i, best) ==
    IF i > Len(entries) THEN best
    ELSE HighestFrom(entries, i + 1,
                     IF entries[i].price > best THEN entries[i].price ELSE best)

RECURSIVE LowestFrom(_, _, _)
LowestFrom(entries, i, best) ==
    IF i > Len(entries) THEN best
    ELSE LowestFrom(entries, i + 1,
                    IF entries[i].price < best THEN entries[i].price ELSE best)

getBestBid(product, timestamp) ==
    HighestFrom(getOrders("bid", product, timestamp), 1, 0)

getBestAskFromZero(product, timestamp) ==
    LowestFrom(getOrders("ask", product, timestamp), 1, 0)

getBestAskAnySide(product, timestamp) ==
    LET asks == matchOrders(product, timestamp)
    IN  IF asks = <<>> THEN 0 ELSE LowestFrom(asks, 1, asks[1].price)

getBestAsk(product, timestamp) ==
    LET asks == getOrders("ask", product, timestamp)
    IN  IF asks = <<>> THEN 0 ELSE LowestFrom(asks, 1, asks[1].price)

RECURSIVE Flatten(_, _)
Flatten(m, keys) ==
    IF keys = <<>> THEN <<>> ELSE m[Head(keys)] \o Flatten(m, Tail(keys))

getAllEntriesFirstOfBucket ==
    Flatten([k \in DOMAIN ordersByProductTime_ |-> <<ordersByProductTime_[k][1]>>],
            SortedKeys(DOMAIN ordersByProductTime_))

getAllEntries ==
    Flatten(ordersByProductTime_, SortedKeys(DOMAIN ordersByProductTime_))

getAllEntriesAtTimeFirstKey(timestamp) ==
    LET keys == SelectSeq(SortedKeys(DOMAIN ordersByProductTime_),
                          LAMBDA k : k[2] = timestamp)
    IN  IF keys = <<>> THEN <<>> ELSE ordersByProductTime_[keys[1]]

getAllEntriesAtTime(timestamp) ==
    Flatten(ordersByProductTime_,
            SelectSeq(SortedKeys(DOMAIN ordersByProductTime_),
                      LAMBDA k : k[2] = timestamp))

(***************************************************************************)
(* Time helpers of OrderBookEntry.cpp and their OrderBook wrappers.        *)
(***************************************************************************)
RECURSIVE EarliestFrom(_, _, _)
EarliestFrom(entries, i, earliest) ==
    IF i > Len(entries) THEN earliest
    ELSE EarliestFrom(entries, i + 1,
                      IF StrLess(entries[i].timestamp, earliest)
                      THEN entries[i].timestamp ELSE earliest)

RECURSIVE LatestFrom(_, _, _)
LatestFrom(entries, i, latest) ==
    IF i > Len(entries) THEN latest
    ELSE LatestFrom(entries, i + 1,
                    IF StrLess(latest, entries[i].timestamp)
                    THEN entries[i].timestamp ELSE latest)

EntriesEarliestTime(entries) ==
    IF entries = <<>> THEN <<>> ELSE EarliestFrom(entries, 1, entries[1].timestamp)

EntriesLatestTimeOfLast(entries) ==
    IF entries = <<>> THEN <<>> ELSE entries[Len(entries)].timestamp

EntriesLatestTime(entries) ==
    IF entries = <<>> THEN <<>> ELSE LatestFrom(entries, 1, entries[1].timestamp)

TimestampSet(entries) == {entries[i].timestamp : i \in 1..Len(entries)}

\* the std::set<std::string> of the timestamps, as the sequence its iteration yields
RECURSIVE SortedStrings(_)
SortedStrings(S) ==
    IF S = {} THEN <<>>
    ELSE LET first == CHOOSE t \in S : \A o \in S \ {t} : StrLess(t, o)
         IN  <<first>> \o SortedStrings(S \ {first})

\* timestamps.upper_bound(x): the position of the first element greater than x,
\* Len + 1 standing for end()
RECURSIVE upper_bound(_, _, _)
upper_bound(timestamps, x, i) ==
    IF i > Len(timestamps) THEN i
    ELSE IF StrLess(x, timestamps[i]) THEN i
    ELSE upper_bound(timestamps, x, i + 1)

\* timestamps.lower_bound(x): the position of the first element not less than x
RECURSIVE lower_bound(_, _, _)
lower_bound(timestamps, x, i) ==
    IF i > Len(timestamps) THEN i
    ELSE IF ~StrLess(timestamps[i], x) THEN i
    ELSE lower_bound(timestamps, x, i + 1)

EntriesNextTimeNotStrict(currentTime, entries) ==
    LET timestamps == SortedStrings(TimestampSet(entries))
        it == lower_bound(timestamps, currentTime, 1)
    IN  IF it # Len(timestamps) + 1 THEN timestamps[it] ELSE <<>>

EntriesNextTime(currentTime, entries) ==
    LET timestamps == SortedStrings(TimestampSet(entries))
        it == upper_bound(timestamps, currentTime, 1)
    IN  IF it # Len(timestamps) + 1 THEN timestamps[it] ELSE <<>>

EntriesPreviousTimeFirst(currentTime, entries) ==
    LET timestamps == SortedStrings(TimestampSet(entries))
        it == lower_bound(timestamps, currentTime, 1)
    IN  IF it = 1 THEN <<>> ELSE timestamps[1]

EntriesPreviousTime(currentTime, entries) ==
    LET timestamps == SortedStrings(TimestampSet(entries))
        it == lower_bound(timestamps, currentTime, 1)
    IN  IF it = 1 THEN <<>> ELSE timestamps[it - 1]

getEarliestTime == EntriesEarliestTime(getAllEntries)

getLatestTime == EntriesLatestTime(getAllEntries)

getNextTime(currentTime) == EntriesNextTime(currentTime, getAllEntries)

getPreviousTime(currentTime) == EntriesPreviousTime(currentTime, getAllEntries)

\* the std::set of the products of the keys, copied out in its order
getKnownProductsPerKey ==
    [i \in 1..Cardinality(DOMAIN ordersByProductTime_) |->
        SortedKeys(DOMAIN ordersByProductTime_)[i][1]]

getKnownProducts == SortedStrings({k[1] : k \in DOMAIN ordersByProductTime_})

(***************************************************************************)
(* The book's operations.  Load draws its file from StoreFiles, whose      *)
(* lines are two well-formed lines of different keys and sides, a line     *)
(* that is too short and a line whose price does not parse; InsertOrder    *)
(* draws from OrderPool, which has bids of negative and positive price,    *)
(* two asks of one key and entries of three keys; with the loaded lines    *)
(* the book can hold the timestamps "1" < "12" < "2".                      *)
(***************************************************************************)
StoreLinePool ==
    { Csv(<<T1, PA, Bid, <<"1">>, <<"2">>>>),
      Csv(<<T2, PB, <<"B", "i", "d">>, <<"1">>, <<"-", "1">>>>),
      Csv(<<<<"z">>, <<"z">>, <<"z">>>>),
      Csv(<<T1, PA, Ask, <<"1">>, <<".">>>>) }

StoreFiles ==
    {NoFile} \cup {[is_open |-> TRUE, lines |-> ls] : ls \in SeqsUpTo(StoreLinePool, MaxLines)}

OrderPool ==
    { OrderBookEntry(0 - 10, 10, T1, PA, "bid"),
      OrderBookEntry(0 - 20, 10, T1, PA, "bid"),
      OrderBookEntry(20, 10, T1, PA, "bid"),
      OrderBookEntry(10, 10, T1, PA, "ask"),
      OrderBookEntry(5, 10, T1, PA, "ask"),
      OrderBookEntry(30, 10, T1, PB, "ask"),
      OrderBookEntry(10, 10, T12, PA, "bid") }

Load(file) ==
    /\ ordersByProductTime_' = load(ordersByProductTime_, file)
    /\ cerr' = readCSV(file).cerr
    /\ accepted' = readCSV(file).out
    /\ last' = [op |-> "load", file |-> file, order |-> NoEntry,
                held |-> Len(getAllEntries),
                again |-> (last.op = "load" /\ last.file = file)]
    /\ result' = NoResult
    /\ UNCHANGED <<out, ret, stats, mainVars>>

InsertOrder(order) ==
    /\ Len(getAllEntries) < MaxEntries
    /\ ordersByProductTime_' =
          pushBack(ordersByProductTime_, <<order.product, order.timestamp>>, order)
    /\ cerr' = <<>>
    /\ accepted' = Append(accepted, order)
    /\ last' = [op |-> "insertOrder", file |-> NoFile, order |-> order,
                held |-> Len(getAllEntries), again |-> FALSE]
    /\ result' = NoResult
    /\ UNCHANGED <<out, ret, stats, mainVars>>

Next ==
    \/ \E file \in StoreFiles : Load(file)
    \/ \E order \in OrderPool : InsertOrder(order)

Spec == Init /\ [][Next]_vars

(***************************************************************************)
(* Claims about the loader, checked under LoaderSpec.                      *)
(***************************************************************************)

\* C1: on a source that opens, the loader returns the number N of valid
\* lines and the output holds exactly the records of the valid lines, in
\* source order, wherever the malformed lines stand among them.
C1_PartialFailureIsolation ==
    LoaderRan =>
        /\ ret = Cardinality(ValidIdx(last.file.lines))
        /\ out = ValidRecords(last.file.lines)

\* C1 witness: a malformed line came before a valid line, and the valid one was loaded
C1_Witness ==
    /\ LoaderRan
    /\ \E i, j \in 1..Len(last.file.lines) :
          /\ i < j
          /\ last.file.lines[i] # <<>>
          /\ Malformed(last.file.lines[i])
          /\ ~Malformed(last.file.lines[j])
    /\ ret = 1
    /\ Len(out) = 1

\* C2 (as claimed): after every call of readCSV(path, out), out holds exactly
\* the records parsed from the source by this call (none when it cannot be
\* opened) and nothing of its previous content.
C2_ClearsDestination ==
    last.op = "readCSV" =>
        out = IF last.file.is_open THEN ValidRecords(last.file.lines) ELSE <<>>

\* C4 (as claimed): the number of diagnostics of a load equals the number of
\* malformed non-blank lines of the source.
C4_DiagnosticPerMalformedLine ==
    LoaderRan =>
        Len(cerr) = Cardinality({i \in 1..Len(last.file.lines) :
                                    /\ last.file.lines[i] # <<>>
                                    /\ Malformed(last.file.lines[i])})

C6_SideTokenMapping ==
    LoaderRan =>
        \A i \in 1..Len(last.file.lines) :
            LET line == last.file.lines[i]
                p == ParseLine(line)
            IN  ~Malformed(line) =>
                    /\ ~p.threw
                    /\ p.obe.orderType = (IF Field(line, 3) = Bid THEN "bid" ELSE "ask")
                    /\ \E k \in 1..Len(out) :
                          /\ out[k].orderType = p.obe.orderType
                          /\ out[k].timestamp = Field(line, 1)
                          /\ out[k].product = Field(line, 2)

\* C6 witness: a bid, and asks from an empty and from a differently-cased token
C6_Witness ==
    /\ LoaderRan
    /\ \E i \in 1..Len(last.file.lines) :
          Field(last.file.lines[i], 3) \in {<<>>, <<"B", "i", "d">>}
    /\ \E k \in 1..Len(out) : out[k].orderType = "ask"
    /\ ret = Len(last.file.lines)

(***************************************************************************)
(* Claims about the order book, checked under Spec.                        *)
(***************************************************************************)
AllProducts == {PA, PB}

AllTimestamps == {<<>>, T1, T12, T2}

AllTypes == {"bid", "ask"}

Count(seq, x) == Cardinality({k \in 1..Len(seq) : seq[k] = x})

BagOfSeq(seq) == [x \in {seq[k] : k \in 1..Len(seq)} |-> Count(seq, x)]

MaxPrice(entries) ==
    CHOOSE p \in {entries[k].price : k \in 1..Len(entries)} :
        \A k \in 1..Len(entries) : entries[k].price <= p

\* C3: when the source cannot be opened the loader reports zero records and
\* one diagnostic, and a load of it leaves the book empty whatever it held:
\* every query then returns its empty or sentinel default.
C3_UnopenableSourceLeavesStoreEmpty ==
    (last.op = "load" /\ ~last.file.is_open) =>
        /\ readCSVInto(last.file, accepted).ret = 0
        /\ cerr = <<CouldNotOpen>>
        /\ DOMAIN ordersByProductTime_ = {}
        /\ getAllEntries = <<>>
        /\ getEarliestTime = <<>>
        /\ getLatestTime = <<>>
        /\ \A p \in AllProducts, t \in AllTimestamps :
              /\ matchOrders(p, t) = <<>>
              /\ getBestBid(p, t) = 0
              /\ getBestAsk(p, t) = 0
              /\ getAllEntriesAtTime(t) = <<>>
              /\ getNextTime(t) = <<>>
              /\ getPreviousTime(t) = <<>>
              /\ \A type \in AllTypes : getOrders(type, p, t) = <<>>

\* C3 witness: a book that held entries was loaded from a source that does not open
C3_Witness ==
    /\ last.op = "load"
    /\ ~last.file.is_open
    /\ last.held = MaxEntries
    /\ getAllEntries = <<>>

\* C7: every entry r the book accepted since its last load is in
\* getOrders(r.orderType, r.product, r.timestamp), as often as it was accepted.
C7_BucketCompleteness ==
    \A i \in 1..Len(accepted) :
        LET r == accepted[i]
        IN  Count(getOrders(r.orderType, r.product, r.timestamp), r) = Count(accepted, r)

\* C7 witness: an entry was loaded, then the same entry and another were inserted
C7_Witness ==
    /\ last.op = "insertOrder"
    /\ \E i \in 1..Len(accepted) : Count(accepted, accepted[i]) = 2
    /\ Cardinality(DOMAIN ordersByProductTime_) >= 2

\* C8: getOrders(type, product, timestamp) is exactly the entries of that
\* product, timestamp and type in the order the book accepted them, and is
\* empty when the key has no bucket.
C8_OrdersForExact ==
    \A type \in AllTypes, p \in AllProducts, t \in AllTimestamps :
        /\ getOrders(type, p, t) =
              SelectSeq(accepted, LAMBDA e : /\ e.orderType = type
                                             /\ e.product = p
                                             /\ e.timestamp = t)
        /\ <<p, t>> \notin DOMAIN ordersByProductTime_ => getOrders(type, p, t) = <<>>

\* C8 witness: a bucket holds both sides, two different bids in insertion
\* order, while another key has no bucket
C8_Witness ==
    /\ \E p \in AllProducts, t \in AllTimestamps :
          /\ Len(getOrders("bid", p, t)) = 2
          /\ getOrders("bid", p, t)[1] # getOrders("bid", p, t)[2]
          /\ Len(getOrders("ask", p, t)) = 1
    /\ \E p \in AllProducts, t \in AllTimestamps : <<p, t>> \notin DOMAIN ordersByProductTime_

\* C9: matchOrders(product, timestamp) is, as a multiset, the bids together
\* with the asks of that key, and is empty when the key has no bucket.
C9_SliceIsBothSides ==
    \A p \in AllProducts, t \in AllTimestamps :
        /\ BagOfSeq(matchOrders(p, t)) =
              BagOfSeq(getOrders("bid", p, t)) (+) BagOfSeq(getOrders("ask", p, t))
        /\ <<p, t>> \notin DOMAIN ordersByProductTime_ => matchOrders(p, t) = <<>>

\* C9 witness: a slice with entries of both sides
C9_Witness ==
    \E p \in AllProducts, t \in AllTimestamps :
        /\ Len(matchOrders(p, t)) = MaxEntries
        /\ getOrders("bid", p, t) # <<>>
        /\ getOrders("ask", p, t) # <<>>

\* C10 (as claimed): getBestBid is the highest price among the bids of the
\* bucket when there is one, whatever the prices, and 0 when there is none.
C10_BestBidIsMaximum ==
    \A p \in AllProducts, t \in AllTimestamps :
        LET bids == getOrders("bid", p, t)
        IN  getBestBid(p, t) = IF bids = <<>> THEN 0 ELSE MaxPrice(bids)

(***************************************************************************)
(* What the claims about prices and times speak of: the least price of a   *)
(* slice, the lexicographic order of strings stated on their first         *)
(* difference, and the sum of the bags of the slices of all products.      *)
(***************************************************************************)
MinPrice(entries) ==
    CHOOSE p \in {entries[k].price : k \in 1..Len(entries)} :
        \A k \in 1..Len(entries) : p <= entries[k].price

LexLess(a, b) ==
    \E i \in 1..Len(b) :
        /\ Len(a) >= i - 1
        /\ SubSeq(a, 1, i - 1) = SubSeq(b, 1, i - 1)
        /\ Len(a) = i - 1 \/ Code(a[i]) < Code(b[i])

LexLeast(S) == CHOOSE t \in S : \A o \in S \ {t} : LexLess(t, o)

LexGreatest(S) == CHOOSE t \in S : \A o \in S \ {t} : LexLess(o, t)

RECURSIVE SlicesBag(_, _)
SlicesBag(products, t) ==
    IF products = {} THEN EmptyBag
    ELSE LET p == CHOOSE x \in products : TRUE
         IN  BagOfSeq(matchOrders(p, t)) (+) SlicesBag(products \ {p}, t)

\* C11: getBestAsk is the lowest price among the asks of the bucket when it
\* has one, whatever the prices, and 0 when it has none or does not exist.
C11_BestAskIsMinimum ==
    \A p \in AllProducts, t \in AllTimestamps :
        LET asks == getOrders("ask", p, t)
        IN  getBestAsk(p, t) = IF asks = <<>> THEN 0 ELSE MinPrice(asks)

\* C11 witness: a bucket with two asks whose lowest price is not the first,
\* and a bucket whose only ask has a negative price
C11_Witness ==
    /\ \E p \in AllProducts, t \in AllTimestamps :
          /\ Len(getOrders("ask", p, t)) = 2
          /\ getBestAsk(p, t) = getOrders("ask", p, t)[2].price
          /\ getBestAsk(p, t) < getOrders("ask", p, t)[1].price
    /\ \E p \in AllProducts, t \in AllTimestamps : getBestAsk(p, t) < 0

\* C13: after load(source) the book holds exactly the records parsed from
\* that source, whatever loads and inserts came before.
C13_LoadIsNotAdditive ==
    last.op = "load" =>
        BagOfSeq(getAllEntries) =
            BagOfSeq(IF last.file.is_open THEN ValidRecords(last.file.lines) ELSE <<>>)

\* C13 witness: a full book was loaded from a source with one valid line
C13_Witness ==
    /\ last.op = "load"
    /\ last.file.is_open
    /\ last.held = MaxEntries
    /\ Len(getAllEntries) = 1

\* C15: getAllEntries is, as a multiset, the entries accepted since the last
\* load, each once per acceptance.
C15_AllRecordsFlattenEveryBucket ==
    BagOfSeq(getAllEntries) = BagOfSeq(accepted)

\* C15 witness: two buckets, one of them holding the same entry twice
C15_Witness ==
    /\ Cardinality(DOMAIN ordersByProductTime_) = 2
    /\ \E k \in DOMAIN ordersByProductTime_ :
          /\ Len(ordersByProductTime_[k]) = 2
          /\ ordersByProductTime_[k][1] = ordersByProductTime_[k][2]
    /\ Len(getAllEntries) = 3

\* C16: getAllEntriesAtTime(timestamp) is exactly the entries of the book
\* with that timestamp: the multiset union of matchOrders(m, timestamp) over
\* all products m, with no entry of another timestamp.
C16_RecordsAtTimestamp ==
    \A t \in AllTimestamps :
        /\ BagOfSeq(getAllEntriesAtTime(t)) = SlicesBag(AllProducts, t)
        /\ BagOfSeq(getAllEntriesAtTime(t)) =
              BagOfSeq(SelectSeq(accepted, LAMBDA e : e.timestamp = t))

\* C16 witness: one timestamp held by two products while another timestamp is in the book
C16_Witness ==
    \E t \in AllTimestamps :
        /\ Len(getAllEntriesAtTime(t)) = 2
        /\ \A p \in AllProducts : Len(matchOrders(p, t)) = 1
        /\ Len(getAllEntries) = 3

\* C17: getEarliestTime and getLatestTime are the lexicographically least and
\* greatest timestamp of the entries of the book, in whatever order they were
\* accepted, and the empty string when the book has no entries.
C17_EarliestLatest ==
    IF accepted = <<>>
    THEN getEarliestTime = <<>> /\ getLatestTime = <<>>
    ELSE /\ getEarliestTime = LexLeast(TimestampSet(accepted))
         /\ getLatestTime = LexGreatest(TimestampSet(accepted))

\* C17 witness: three timestamps, accepted neither in increasing nor in
\* decreasing order
C17_Witness ==
    /\ Len(accepted) = 3
    /\ LexLess(accepted[2].timestamp, accepted[3].timestamp)
    /\ LexLess(accepted[3].timestamp, accepted[1].timestamp)
    /\ getEarliestTime = accepted[2].timestamp
    /\ getLatestTime = accepted[1].timestamp

\* C12: a load that repeats the load just before it, from the same unchanged
\* source, leaves getAllEntries the same multiset as that load did.
C12_IdempotentReload ==
    [][(last'.op = "load" /\ last'.again) =>
          BagOfSeq(getAllEntries)' = BagOfSeq(getAllEntries)]_vars

\* C12 witness: a source with two valid lines was loaded twice in a row
C12_Witness ==
    /\ last.op = "load"
    /\ last.again
    /\ last.file.is_open
    /\ last.held = 2
    /\ Len(getAllEntries) = 2

\* C14: insertOrder(r) appends r as the last element of the bucket of
\* (r.product, r.timestamp), creating it if absent, leaves every other bucket
\* and the earlier elements of that bucket as they were; after it
\* getAllEntries holds exactly one entry more than the book held before.
C14_InsertAppendsToItsBucket ==
    [][/\ last'.op = "insertOrder" =>
             LET r == last'.order
                 key == <<r.product, r.timestamp>>
                 old == IF key \in DOMAIN ordersByProductTime_
                        THEN ordersByProductTime_[key] ELSE <<>>
             IN  /\ DOMAIN ordersByProductTime_' = DOMAIN ordersByProductTime_ \cup {key}
                 /\ ordersByProductTime_'[key] = Append(old, r)
                 /\ \A k \in DOMAIN ordersByProductTime_ \ {key} :
                       ordersByProductTime_'[k] = ordersByProductTime_[k]
       /\ last.op = "insertOrder" =>
             /\ Len(getAllEntries) = last.held + 1
             /\ Count(getAllEntries, last.order) >= 1]_vars

\* C14 witness: an insert into a bucket that already had an entry, beside another bucket
C14_Witness ==
    /\ last.op = "insertOrder"
    /\ last.held = 2
    /\ Cardinality(DOMAIN ordersByProductTime_) = 2
    /\ Len(ordersByProductTime_[<<last.order.product, last.order.timestamp>>]) = 2

(***************************************************************************)
(* Navigation: the strings asked about, stored or not, and repeated        *)
(* application of getNextTime and getPreviousTime.                         *)
(***************************************************************************)
Currents == AllTimestamps \cup {<<"0">>, <<"1", "5">>, <<"3">>}

StoredTimes == TimestampSet(accepted)

Rank(t) == Cardinality({o \in StoredTimes : LexLess(o, t)})

RECURSIVE NextTimes(_, _)
NextTimes(t, n) == IF n = 0 THEN t ELSE getNextTime(NextTimes(t, n - 1))

RECURSIVE PreviousTimes(_, _)
PreviousTimes(t, n) == IF n = 0 THEN t ELSE getPreviousTime(PreviousTimes(t, n - 1))

\* C18: for any string current, stored or not, getNextTime(current) is the
\* least stored timestamp greater than current and getPreviousTime(current)
\* the greatest stored timestamp less than current, each the empty string
\* when there is none; so nothing follows the latest or precedes the earliest.
C18_NextAndPreviousTime ==
    /\ \A current \in Currents :
          LET after == {t \in StoredTimes : LexLess(current, t)}
              before == {t \in StoredTimes : LexLess(t, current)}
          IN  /\ getNextTime(current) = IF after = {} THEN <<>> ELSE LexLeast(after)
              /\ getPreviousTime(current) =
                    IF before = {} THEN <<>> ELSE LexGreatest(before)
    /\ getNextTime(getLatestTime) = <<>>
    /\ getPreviousTime(getEarliestTime) = <<>>

\* C18 witness: a string that is not stored lies between two stored
\* timestamps, and a stored timestamp has a stored neighbour on each side
C18_Witness ==
    /\ \E current \in Currents \ StoredTimes :
          /\ getNextTime(current) # <<>>
          /\ getPreviousTime(current) # <<>>
    /\ \E current \in StoredTimes :
          /\ getNextTime(current) \in StoredTimes
          /\ getPreviousTime(current) \in StoredTimes

\* C19: from a stored timestamp, repeated getNextTime reaches every later
\* stored timestamp, passing the stored timestamps between them once each in
\* increasing order; getPreviousTime from the later one retraces the walk; and
\* getPreviousTime(getNextTime(t)) = t for every stored t but the latest.
C19_NavigationMonotonicity ==
    /\ \A a, b \in StoredTimes :
          LexLess(a, b) =>
              LET n == Rank(b) - Rank(a)
              IN  /\ NextTimes(a, n) = b
                  /\ \A k \in 1..n :
                        /\ NextTimes(a, k) \in StoredTimes
                        /\ Rank(NextTimes(a, k)) = Rank(a) + k
                        /\ PreviousTimes(b, k) = NextTimes(a, n - k)
    /\ \A t \in StoredTimes :
          t # getLatestTime => getPreviousTime(getNextTime(t)) = t

\* C19 witness: a walk of two steps over three stored timestamps
C19_Witness ==
    /\ Cardinality(StoredTimes) = 3
    /\ NextTimes(getEarliestTime, 2) = getLatestTime
    /\ PreviousTimes(getLatestTime, 2) = getEarliestTime
    /\ NextTimes(getEarliestTime, 1) \notin {getEarliestTime, getLatestTime}

(***************************************************************************)
(* Queries.  Every query method of OrderBook is const; getOrders and       *)
(* matchOrders, and through getOrders getBestBid and getBestAsk, look the  *)
(* key up with find, which leaves the map as it is where operator[] would  *)
(* create the bucket.  QuerySpec loads a source that does not open, one   *)
(* of two lines or one whose line has an empty first field, inserts from   *)
(* two orders and asks every query about stored and unstored keys.         *)
(***************************************************************************)
subscript(m, key) ==
    [map |-> [k \in DOMAIN m \cup {key} |-> IF k \in DOMAIN m THEN m[k] ELSE <<>>],
     found |-> TRUE]

\* ordersByProductTime_.find(key): the map after the lookup and whether it != end()
find(m, key) == [map |-> m, found |-> key \in DOMAIN m]

QueryOf(name, type, product, timestamp) ==
    [name |-> name, type |-> type, product |-> product, timestamp |-> timestamp]

QueryProducts == {PA, PB}

QueryTimes == {T1, T2}

LookupQueries == {"getOrders", "matchOrders", "getBestBid", "getBestAsk"}

Queries ==
    {QueryOf("getOrders", ty, p, t) : ty \in {"bid", "ask"}, p \in QueryProducts, t \in QueryTimes}
    \cup {QueryOf(n, "none", p, t) :
              n \in {"matchOrders", "getBestBid", "getBestAsk"},
              p \in QueryProducts, t \in QueryTimes}
    \cup {QueryOf(n, "none", <<>>, t) :
              n \in {"getAllEntriesAtTime", "getNextTime", "getPreviousTime"},
              t \in QueryTimes}
    \cup {QueryOf(n, "none", <<>>, <<>>) :
              n \in {"getAllEntries", "getEarliestTime", "getLatestTime", "getKnownProducts"}}

\* what the query returns from the book as it is
Answer(q) ==
    CASE q.name = "getOrders" -> getOrders(q.type, q.product, q.timestamp)
      [] q.name = "matchOrders" -> matchOrders(q.product, q.timestamp)
      [] q.name = "getBestBid" -> getBestBid(q.product, q.timestamp)
      [] q.name = "getBestAsk" -> getBestAsk(q.product, q.timestamp)
      [] q.name = "getAllEntries" -> getAllEntries
      [] q.name = "getAllEntriesAtTime" -> getAllEntriesAtTime(q.timestamp)
      [] q.name = "getEarliestTime" -> getEarliestTime
      [] q.name = "getLatestTime" -> getLatestTime
      [] q.name = "getNextTime" -> getNextTime(q.timestamp)
      [] q.name = "getPreviousTime" -> getPreviousTime(q.timestamp)
      [] q.name = "getKnownProducts" -> getKnownProducts

QueryFiles ==
    { NoFile,
      [is_open |-> TRUE,
       lines |-> << Csv(<<T1, PA, Bid, <<"1">>, <<"2">>>>),
                    Csv(<<T2, PB, Ask, <<"3">>, <<"1">>>>) >>],
      [is_open |-> TRUE,
       lines |-> << Csv(<<<<>>, PB, Bid, <<"1">>, <<"1">>>>) >>] }

QueryOrders ==
    { OrderBookEntry(10, 10, T1, PA, "ask"),
      OrderBookEntry(20, 10, T12, PA, "bid") }

Query(q) ==
    /\ ordersByProductTime_' =
          IF q.name \in LookupQueries
          THEN find(ordersByProductTime_, <<q.product, q.timestamp>>).map
          ELSE ordersByProductTime_
    /\ result' = [q |-> q, value |-> Answer(q)]
    /\ last' = [op |-> "query", file |-> NoFile, order |-> NoEntry,
                held |-> Len(getAllEntries),
                again |-> (last.op = "query" /\ result.q = q)]
    /\ UNCHANGED <<out, ret, cerr, accepted, stats, mainVars>>

QueryNext ==
    \/ \E file \in QueryFiles : Load(file)
    \/ \E order \in QueryOrders : InsertOrder(order)
    \/ \E q \in Queries : Query(q)

QuerySpec == Init /\ [][QueryNext]_vars

\* C20: no query changes ordersByProductTime_, a lookup of a key that has no
\* bucket included, and a query that repeats the one just before it returns
\* the same result.
C20_QueriesArePure ==
    [][last'.op = "query" =>
          /\ ordersByProductTime_' = ordersByProductTime_
          /\ last'.again => result'.value = result.value]_vars

\* C20 witness: getOrders was asked twice in a row for a key that has no
\* bucket in a book that holds other buckets
C20_Witness ==
    /\ last.op = "query"
    /\ last.again
    /\ result.q.name = "getOrders"
    /\ DOMAIN ordersByProductTime_ # {}
    /\ <<result.q.product, result.q.timestamp>> \notin DOMAIN ordersByProductTime_
    /\ result.value = <<>>

\* C21: absence is never an error.  For a key that has no bucket, or no
\* entry of the side asked for, getOrders and matchOrders return the empty
\* vector and getBestBid and getBestAsk return 0; for a timestamp no entry
\* has, getAllEntriesAtTime returns the empty vector; on an empty book
\* getAllEntries and getKnownProducts are empty and getEarliestTime,
\* getLatestTime, getNextTime and getPreviousTime return the empty string.
C21_AbsenceIsNeverAnError ==
    /\ \A p \in AllProducts, t \in AllTimestamps :
          LET here == {i \in 1..Len(accepted) :
                          accepted[i].product = p /\ accepted[i].timestamp = t}
              side(ty) == {i \in here : accepted[i].orderType = ty}
          IN  /\ here = {} => matchOrders(p, t) = <<>>
              /\ \A ty \in AllTypes : side(ty) = {} => getOrders(ty, p, t) = <<>>
              /\ side("bid") = {} => getBestBid(p, t) = 0
              /\ side("ask") = {} => getBestAsk(p, t) = 0
    /\ \A t \in AllTimestamps :
          t \notin StoredTimes => getAllEntriesAtTime(t) = <<>>
    /\ accepted = <<>> =>
          /\ getAllEntries = <<>>
          /\ getKnownProducts = <<>>
          /\ getEarliestTime = <<>>
          /\ getLatestTime = <<>>
          /\ \A current \in Currents :
                getNextTime(current) = <<>> /\ getPreviousTime(current) = <<>>

\* C21 witness: the book holds a bucket of bids only, whose best ask is
\* asked for, and lacks the bucket of another key
C21_Witness ==
    /\ \E k \in DOMAIN ordersByProductTime_ :
          /\ getOrders("bid", k[1], k[2]) # <<>>
          /\ getOrders("ask", k[1], k[2]) = <<>>
          /\ getBestAsk(k[1], k[2]) = 0
          /\ getBestBid(k[1], k[2]) > 0
    /\ \E p \in AllProducts, t \in AllTimestamps :
          /\ <<p, t>> \notin DOMAIN ordersByProductTime_
          /\ t \in StoredTimes

\* C27: getKnownProducts returns the products that have at least one entry
\* in the book, each exactly once, in ascending lexicographic order, and no
\* other product; it is empty exactly when the book is empty.
C27_KnownProducts ==
    LET products == getKnownProducts
    IN  /\ {products[i] : i \in 1..Len(products)} =
              {accepted[i].product : i \in 1..Len(accepted)}
        /\ \A i, j \in 1..Len(products) : i < j => LexLess(products[i], products[j])
        /\ products = <<>> <=> getAllEntries = <<>>

\* C27 witness: one product has buckets at two timestamps and another product one
C27_Witness ==
    /\ getKnownProducts = <<PA, PB>>
    /\ Cardinality({k \in DOMAIN ordersByProductTime_ : k[1] = PA}) = 2
    /\ accepted[1].product = PB

\* C28: after any sequence of load, insertOrder and queries, every key of
\* ordersByProductTime_ maps to a non-empty bucket and every entry of a
\* bucket has the product and the timestamp of the bucket's key.
C28_IndexInvariant ==
    \A k \in DOMAIN ordersByProductTime_ :
        /\ ordersByProductTime_[k] # <<>>
        /\ \A i \in 1..Len(ordersByProductTime_[k]) :
              /\ ordersByProductTime_[k][i].product = k[1]
              /\ ordersByProductTime_[k][i].timestamp = k[2]

\* C28 witness: after a load and an insert, a key that has no bucket was
\* looked up beside two buckets, one of them of two entries
C28_Witness ==
    /\ last.op = "query"
    /\ result.q.name \in LookupQueries
    /\ <<result.q.product, result.q.timestamp>> \notin DOMAIN ordersByProductTime_
    /\ Cardinality(DOMAIN ordersByProductTime_) = 2
    /\ \E k \in DOMAIN ordersByProductTime_ : Len(ordersByProductTime_[k]) = 2
    /\ Len(accepted) = 3

\* C29 as stated: getEarliestTime returns the empty string if and only if the
\* book holds no entry, and likewise getLatestTime.
C29_EmptyTimeMeansNoData ==
    /\ getEarliestTime = <<>> <=> getAllEntries = <<>>
    /\ getLatestTime = <<>> <=> getAllEntries = <<>>

\* C29 amended: getEarliestTime returns the empty string if and only if the
\* book is empty or holds an entry whose timestamp is empty, and
\* getLatestTime if and only if every entry of the book has an empty timestamp.
C29_EmptyTimeAmended ==
    /\ getEarliestTime = <<>> <=>
          (accepted = <<>> \/ \E i \in 1..Len(accepted) : accepted[i].timestamp = <<>>)
    /\ getLatestTime = <<>> <=>
          \A i \in 1..Len(accepted) : accepted[i].timestamp = <<>>

\* C29 witness: a line with an empty first field was loaded and an order with
\* a timestamp inserted: the earliest time is empty and the latest is not
C29_Witness ==
    /\ last.op = "insertOrder"
    /\ Len(accepted) = 2
    /\ accepted[1].timestamp = <<>>
    /\ getEarliestTime = <<>>
    /\ getLatestTime = T1

(***************************************************************************)
(* The statistics as pure functions.  StatsSpec starts from a current      *)
(* vector of up to MaxSlice entries priced 0.1 or 12.0 and a previous      *)
(* vector that is empty, cancels to a mean of exactly 0.0 (0.5, -0.5),     *)
(* holds one entry (10.0), or cancels in the decimals only (0.1, 0.2,      *)
(* -0.3); ComputeStats applies the six functions to them.                  *)
(***************************************************************************)
EntryAt(price) == OrderBookEntry(price, 10, T1, PA, "bid")

EntriesAt(prices) == [i \in 1..Len(prices) |-> EntryAt(prices[i])]

StatPrices == {1, 120}

CurrentSlices == {EntriesAt(prices) : prices \in SeqsUpTo(StatPrices, MaxSlice)}

PreviousSlices ==
    { <<>>,
      EntriesAt(<<5, 0 - 5>>),
      EntriesAt(<<100>>),
      EntriesAt(<<1, 2, 0 - 3>>) }

StatsInit ==
    /\ out = <<>>
    /\ ret = 0
    /\ cerr = <<>>
    /\ ordersByProductTime_ = <<>>
    /\ accepted = <<>>
    /\ last = [op |-> "none", file |-> NoFile, order |-> NoEntry, held |-> 0, again |-> FALSE]
    /\ result = NoResult
    /\ stats \in {[NoStats EXCEPT !.current = current, !.previous = previous] :
                      current \in CurrentSlices, previous \in PreviousSlices}
    /\ pc = "start"
    /\ currentTimestamp_ = <<>>
    /\ cout = <<>>

ComputeStats ==
    /\ ~stats.done
    /\ stats' = [current |-> stats.current, previous |-> stats.previous, done |-> TRUE,
                 mean |-> computeAveragePrice(stats.current),
                 low |-> computeLowPrice(stats.current),
                 high |-> computeHighPrice(stats.current),
                 spread |-> computePriceSpread(stats.current),
                 change |-> computePriceChange(stats.current, stats.previous),
                 percent |-> computePercentChange(stats.current, stats.previous)]
    /\ UNCHANGED <<out, ret, cerr, ordersByProductTime_, accepted, last, result, mainVars>>

StatsNext == ComputeStats

StatsSpec == StatsInit /\ [][StatsNext]_vars

DoubleLeq(x, y) == ~DoubleLess(y, x)

DoubleAbs(x) == IF x = DoubleZero THEN x ELSE [x EXCEPT !.neg = FALSE]

RECURSIVE SumOfFirst(_, _)
SumOfFirst(entries, k) ==
    IF k = 0 THEN DoubleZero
    ELSE DoubleAdd(SumOfFirst(entries, k - 1), PriceOf(entries[k]))

PricesOf(entries) == {PriceOf(entries[i]) : i \in 1..Len(entries)}

LeastOf(S) == CHOOSE x \in S : \A y \in S : DoubleLeq(x, y)

GreatestOf(S) == CHOOSE x \in S : \A y \in S : DoubleLeq(y, x)

\* what C22 says of a vector apart from the place of the mean
SliceStatisticsExact ==
    IF stats.current = <<>>
    THEN /\ stats.mean = DoubleZero
         /\ stats.low = DoubleZero
         /\ stats.high = DoubleZero
         /\ stats.spread = DoubleZero
    ELSE /\ stats.mean = DoubleDiv(SumOfFirst(stats.current, Len(stats.current)),
                                   DoubleOfInt(Len(stats.current)))
         /\ stats.low = LeastOf(PricesOf(stats.current))
         /\ stats.high = GreatestOf(PricesOf(stats.current))
         /\ stats.spread = DoubleSub(stats.high, stats.low)
         /\ DoubleLeq(DoubleZero, stats.spread)

MeanWithinLowAndHigh ==
    DoubleLeq(stats.low, stats.mean) /\ DoubleLeq(stats.mean, stats.high)

C23_ChangeVsPrevious ==
    stats.done =>
        /\ stats.previous = <<>> =>
              stats.change = DoubleZero /\ stats.percent = DoubleZero
        /\ stats.previous # <<>> =>
              /\ stats.change =
                    DoubleSub(stats.mean, computeAveragePrice(stats.previous))
              /\ stats.current = <<>> =>
                    stats.change = DoubleNeg(computeAveragePrice(stats.previous))

\* C23 witness: an empty current against a previous of one entry of 10.0
C23_Witness ==
    /\ stats.done
    /\ stats.current = <<>>
    /\ stats.previous = EntriesAt(<<100>>)
    /\ stats.change = DoubleNeg(DoubleOfTenths(100))

\* C24: computePercentChange never divides by zero: it is 0 when previous is
\* empty or computeAveragePrice(previous) is exactly 0, and otherwise
\* (mean(current) - mean(previous)) / mean(previous) * 100.
C24_PercentChange ==
    stats.done =>
        LET meanPrev == computeAveragePrice(stats.previous)
        IN  /\ stats.percent # DoubleNotFinite
            /\ IF stats.previous = <<>> \/ meanPrev = DoubleZero
               THEN stats.percent = DoubleZero
               ELSE stats.percent =
                       DoubleMul(DoubleDiv(DoubleSub(stats.mean, meanPrev), meanPrev),
                                 DoubleOfInt(100))

\* C24 witness: a previous of 0.5 and -0.5, whose mean is exactly 0, against
\* a non-empty current
C24_Witness ==
    /\ stats.done
    /\ stats.current # <<>>
    /\ stats.previous = EntriesAt(<<5, 0 - 5>>)
    /\ computeAveragePrice(stats.previous) = DoubleZero
    /\ stats.mean # DoubleZero
    /\ stats.percent = DoubleZero

(***************************************************************************)
(* Format::price: the text std::fixed << std::setprecision(8) gives for a  *)
(* double, which is its exact value rounded to eight decimals, ties to     *)
(* even: the sign, the integer digits, the point and eight digits.         *)
(***************************************************************************)
Decimals == 8

RECURSIVE NatPow10(_)
NatPow10(n) == IF n = 0 THEN <<1>> ELSE NatMulSmall(NatPow10(n - 1), 10)

\* the natural nearest to n / d, ties to even
NatRoundDiv(n, d) == RoundedQuot(NatDivMod(n, d), d)

\* the decimal digits of a, none for 0
RECURSIVE NatDecimal(_)
NatDecimal(a) ==
    IF a = <<>> THEN <<>>
    ELSE LET qr == NatDivMod(a, <<10>>)
         IN  Append(NatDecimal(qr.quot), Digits[Limb(qr.rem, 1) + 1])

\* what operator<< writes for an infinity or a NaN
NotFiniteText == <<"inf or nan">>

\* the value in units of 10^-Decimals, rounded
FixedUnits(value) ==
    IF value = DoubleZero THEN <<>>
    ELSE IF value.exp >= 0
    THEN NatShl(NatMul(value.mant, NatPow10(Decimals)), value.exp)
    ELSE NatRoundDiv(NatMul(value.mant, NatPow10(Decimals)), NatShl(<<1>>, 0 - value.exp))

PadTo(digits, n) == [i \in 1..(n - Len(digits)) |-> "0"] \o digits

FixedText(neg, padded) ==
    (IF neg THEN <<"-">> ELSE <<>>)
        \o SubSeq(padded, 1, Len(padded) - Decimals) \o <<".">>
        \o SubSeq(padded, Len(padded) - Decimals + 1, Len(padded))

Format_price(value) ==
    IF value = DoubleNotFinite THEN NotFiniteText
    ELSE FixedText(value.neg, PadTo(NatDecimal(FixedUnits(value)), Decimals + 1))

(***************************************************************************)
(* MerkelMain.  main() constructs the application, calls init() once and   *)
(* then run(), whose loop reads one menu option per turn, handles it and   *)
(* stops after Continue.  cout holds the lines the last handler wrote,     *)
(* each as the tuple of its text and the values streamed into it; the      *)
(* menu, the prompts and the Log::kv lines, which are the same at every    *)
(* turn, are left out.  The file behind orderBookPath_ is one of           *)
(* StoreFiles, the four-line source S1_bid, S1_ask, garbage, S2_bid, or a  *)
(* source whose first line has an empty timestamp.                         *)
(***************************************************************************)
S1 ==
    <<"2", "0", "2", "0", "/", "0", "1", "/", "0", "1", " ", "0", "0",
      ":", "0", "0", ":", "0", "0">>

S2 ==
    <<"2", "0", "2", "0", "/", "0", "1", "/", "0", "2", " ", "0", "0",
      ":", "0", "0", ":", "0", "0">>

XY == <<"X", "/", "Y">>

Garbage ==
    <<"g", "a", "r", "b", "a", "g", "e", ",", "l", "i", "n", "e", ",",
      "o", "n", "l", "y", ",", "t", "h", "r", "e", "e">>

ScenarioFile ==
    [is_open |-> TRUE,
     lines |-> << Csv(<<S1, XY, Bid, <<"1", ".", "0">>, <<"1", "0", ".", "0">>>>),
                  Csv(<<S1, XY, Ask, <<"1", ".", "0">>, <<"1", "2", ".", "0">>>>),
                  Garbage,
                  Csv(<<S2, XY, Bid, <<"2", ".", "0">>, <<"1", "1", ".", "0">>>>) >>]

EmptyTimeFile ==
    [is_open |-> TRUE,
     lines |-> << Csv(<<<<>>, PB, Bid, <<"1">>, <<"1">>>>),
                  Csv(<<T1, PA, Bid, <<"1">>, <<"2">>>>) >>]

MainFiles == StoreFiles \cup {ScenarioFile, EmptyTimeFile}

\* what std::cin >> userOption can leave in userOption: 0 after a failed read
UserOptions == 0..7

\* what std::cin >> amount and std::cin >> price can leave: 0 after a failed read
UserNumbers == {0, 3}

Handled(op) == [last EXCEPT !.op = op, !.again = FALSE]

AtMenu == pc \in {"menu", "validate"}

bookVars == <<out, ret, cerr, ordersByProductTime_, accepted, result, stats>>

\* init() from orderBook_.load on: m is the map after the load and all what
\* getAllEntries() then returns
initLoaded(file, m, all) ==
    /\ pc = "start"
    /\ ordersByProductTime_' = m
    /\ cerr' = readCSV(file).cerr
    /\ accepted' = readCSV(file).out
    /\ IF Len(all) > 0
       THEN /\ currentTimestamp_' = EntriesEarliestTime(all)
            /\ cout' = << <<"[info] Order book loaded.">>,
                          <<"[kv] orders=", Len(all)>>,
                          <<"[kv] currentTime=", EntriesEarliestTime(all)>> >>
       ELSE /\ currentTimestamp_' = <<>>
            /\ cout' = << <<"[warn] No order book loaded; stats will show placeholder.">> >>
    /\ last' = [op |-> "init", file |-> file, order |-> NoEntry,
                held |-> Len(getAllEntries), again |-> FALSE]
    /\ result' = NoResult
    /\ pc' = "menu"
    /\ UNCHANGED <<out, ret, stats>>

initBook(file, m) == initLoaded(file, m, Flatten(m, SortedKeys(DOMAIN m)))

init(file) == initBook(file, load(ordersByProductTime_, file))

\* validateUserOption's loop body: the option read is not one of 1..6
validateUserOption(userOption) ==
    /\ AtMenu
    /\ userOption < 1 \/ userOption > 6
    /\ cout' = << <<"Invalid choice. Choice 1-6 only.">> >>
    /\ pc' = "validate"
    /\ last' = Handled("validateUserOption")
    /\ UNCHANGED <<bookVars, currentTimestamp_>>

printHelp ==
    /\ AtMenu
    /\ cout' = << <<"Help = your aim is to make $$. Analyze...">> >>
    /\ pc' = "menu"
    /\ last' = Handled("printHelp")
    /\ UNCHANGED <<bookVars, currentTimestamp_>>

\* printMarketStats: the two lines about the first product
BestLines(products) ==
    IF products = <<>> THEN <<>>
    ELSE << <<"Best bid", products[1],
              Format_price(DoubleOfTenths(getBestBid(products[1], currentTimestamp_)))>>,
            <<"Best ask", products[1],
              Format_price(DoubleOfTenths(getBestAsk(products[1], currentTimestamp_)))>> >>

\* printMarketStats: the line about the change since the previous time step
ChangeLines(atCurrent, prevTime, atPrevious) ==
    IF prevTime = <<>> THEN << <<"Change vs prev: (no previous time)">> >>
    ELSE IF atPrevious = <<>> THEN <<>>
    ELSE << <<"Change vs prev:",
              Format_price(computePriceChange(atCurrent, atPrevious)),
              Format_price(computePercentChange(atCurrent, atPrevious))>> >>

\* printMarketStats: the lines about the current time window
WindowLines(atCurrent) ==
    IF atCurrent = <<>> THEN <<>>
    ELSE << <<"--- Stats for current time window ---">>,
            <<"Mean price:", Format_price(computeAveragePrice(atCurrent))>>,
            <<"Low price:", Format_price(computeLowPrice(atCurrent))>>,
            <<"High price:", Format_price(computeHighPrice(atCurrent))>>,
            <<"Price spread:", Format_price(computePriceSpread(atCurrent))>> >>
         \o ChangeLines(atCurrent, getPreviousTime(currentTimestamp_),
                        getAllEntriesAtTime(getPreviousTime(currentTimestamp_)))
         \o BestLines(getKnownProducts)

\* the lines of printMarketStats for the book and the current time step
MarketStatsLines ==
    IF getAllEntries = <<>>
    THEN << <<"Market looks good. Sell high, buy low. (No order book loaded.)">> >>
    ELSE << <<"Order book (total entries, products)",
              Len(getAllEntries), Len(getKnownProducts)>>,
            <<"Current time:", currentTimestamp_>>,
            <<"Orders at current time:", Len(getAllEntriesAtTime(currentTimestamp_))>> >>
         \o WindowLines(getAllEntriesAtTime(currentTimestamp_))

printMarketStats ==
    /\ AtMenu
    /\ cout' = MarketStatsLines
    /\ pc' = "menu"
    /\ last' = Handled("printMarketStats")
    /\ UNCHANGED <<bookVars, currentTimestamp_>>

\* the order is not sent to the book
enterAsk(amount, price) ==
    /\ AtMenu
    /\ cout' = << <<"Enter ask">>, <<"Ask entered: @", amount, price>> >>
    /\ pc' = "menu"
    /\ last' = Handled("enterAsk")
    /\ UNCHANGED <<bookVars, currentTimestamp_>>

enterBid(amount, price) ==
    /\ AtMenu
    /\ cout' = << <<"Enter bid">>, <<"Bid entered: @", amount, price>> >>
    /\ pc' = "menu"
    /\ last' = Handled("enterBid")
    /\ UNCHANGED <<bookVars, currentTimestamp_>>

printWallet ==
    /\ AtMenu
    /\ cout' = << <<"Wallet: no balance yet.">> >>
    /\ pc' = "menu"
    /\ last' = Handled("printWallet")
    /\ UNCHANGED <<bookVars, currentTimestamp_>>

continueToNextTimeStepAlways ==
    /\ AtMenu
    /\ currentTimestamp_' = getNextTime(currentTimestamp_)
    /\ cout' = << <<"Now at time:", getNextTime(currentTimestamp_)>>, <<"Goodbye.">> >>
    /\ pc' = "done"
    /\ last' = Handled("continueToNextTimeStep")
    /\ UNCHANGED bookVars

\* handleUserOption(Continue) and, back in run(), the end of the loop
continueToNextTimeStep ==
    /\ AtMenu
    /\ LET next == getNextTime(currentTimestamp_)
       IN  IF next = <<>>
           THEN /\ cout' = << <<"End of order book (no next time step).">>, <<"Goodbye.">> >>
                /\ UNCHANGED currentTimestamp_
           ELSE /\ currentTimestamp_' = next
                /\ cout' = << <<"Now at time:", next>>, <<"Goodbye.">> >>
    /\ pc' = "done"
    /\ last' = Handled("continueToNextTimeStep")
    /\ UNCHANGED bookVars

MainNext ==
    \/ \E file \in MainFiles : init(file)
    \/ \E userOption \in UserOptions : validateUserOption(userOption)
    \/ printHelp
    \/ printMarketStats
    \/ \E amount \in UserNumbers, price \in UserNumbers : enterAsk(amount, price)
    \/ \E amount \in UserNumbers, price \in UserNumbers : enterBid(amount, price)
    \/ printWallet
    \/ continueToNextTimeStep

MainSpec == Init /\ [][MainNext]_vars

(***************************************************************************)
(* Claims about the scenario and about MerkelMain, checked under MainSpec. *)
(***************************************************************************)
Text_10 == <<"1", "0", ".", "0", "0", "0", "0", "0", "0", "0", "0">>

Text_11 == <<"1", "1", ".", "0", "0", "0", "0", "0", "0", "0", "0">>

Text_12 == <<"1", "2", ".", "0", "0", "0", "0", "0", "0", "0", "0">>

\* C25: once init() has loaded the four-line source, the book holds its three
\* well-formed lines as records, in order, and nothing of the garbage line;
\* the best bid of (X/Y, 2020/01/01 00:00:00) is 10.0 and the best ask 12.0,
\* the next time after 2020/01/01 00:00:00 is 2020/01/02 00:00:00 and the
\* mean price of the entries at 2020/01/01 00:00:00 is the double 11.0; option
\* 2 prints these values and option 6 moves to 2020/01/02 00:00:00.
C25_ConcreteScenario ==
    pc # "start" /\ last.file = ScenarioFile =>
        /\ Len(getAllEntries) = 3
        /\ accepted = << OrderBookEntry(100, 10, S1, XY, "bid"),
                         OrderBookEntry(120, 10, S1, XY, "ask"),
                         OrderBookEntry(110, 20, S2, XY, "bid") >>
        /\ BagOfSeq(getAllEntries) = BagOfSeq(accepted)
        /\ getBestBid(XY, S1) = 100
        /\ getBestAsk(XY, S1) = 120
        /\ getNextTime(S1) = S2
        /\ computeAveragePrice(getAllEntriesAtTime(S1)) = DoubleOfTenths(110)
        /\ last.op = "printMarketStats" =>
              /\ cout[1] = <<"Order book (total entries, products)", 3, 1>>
              /\ cout[2] = <<"Current time:", S1>>
              /\ cout[5] = <<"Mean price:", Text_11>>
              /\ cout[10] = <<"Best bid", XY, Text_10>>
              /\ cout[11] = <<"Best ask", XY, Text_12>>
        /\ last.op = "continueToNextTimeStep" => currentTimestamp_ = S2

\* C25 witness: option 2 printed the statistics of the four-line source
C25_Witness ==
    /\ pc = "menu"
    /\ last.file = ScenarioFile
    /\ last.op = "printMarketStats"
    /\ Len(cout) = 11
    /\ cout[5] = <<"Mean price:", Text_11>>

\* C26: after option 6 the session is back at the menu, where option 2 can
\* be chosen again and prints the statistics of the new current time.
C26_StatsAgainAfterContinue ==
    last.op = "continueToNextTimeStep" => AtMenu

\* C30: when the book is not empty after init(), currentTimestamp_ is the
\* timestamp of some entry of the book; after init() it is getEarliestTime();
\* only Continue changes it, to getNextTime(currentTimestamp_), which is
\* greater, and Continue leaves it as it is when there is no next time.
C30_CursorInvariant ==
    /\ [](/\ pc # "start" /\ getAllEntries # <<>> =>
                currentTimestamp_ \in TimestampSet(getAllEntries)
          /\ last.op = "init" /\ getAllEntries # <<>> =>
                currentTimestamp_ = getEarliestTime)
    /\ [][pc # "start" =>
             IF last'.op = "continueToNextTimeStep" /\ getNextTime(currentTimestamp_) # <<>>
             THEN /\ currentTimestamp_' = getNextTime(currentTimestamp_)
                  /\ LexLess(currentTimestamp_, currentTimestamp_')
             ELSE currentTimestamp_' = currentTimestamp_]_vars

\* C30 witness: Continue moved from the earliest time "1" to "2"
C30_Witness ==
    /\ last.op = "continueToNextTimeStep"
    /\ getEarliestTime = T1
    /\ currentTimestamp_ = T2

====
